---- MODULE Spec2Model ----
(***************************************************************************)
(* Model of src/main.rs of voxelvoxel: VoxelRenderer::new, the Vulkan      *)
(* bootstrap sequence, and the helpers it calls.  The driver and the       *)
(* window system are the environment: every value they report is drawn     *)
(* from a small set when the call is made.                                 *)
(***************************************************************************)
EXTENDS Integers, Sequences, FiniteSets

VARIABLES
    pc,               \* the statement of main/new about to run
    overflow_checks,  \* the build: TRUE panics on u32 overflow, FALSE wraps
    win,              \* <<win_width, win_height>> given to new
    result,           \* "running", "ok", "err" (Err returned by new), "panic"
    error,            \* the message of the Err, or the panic
    steps,            \* the calls new has made, in order, with their outcome
    created,          \* the entities constructed so far, in order
    live,             \* handles created and not destroyed
    live_views,       \* image views created and not destroyed
    destroyed,        \* the entities destroyed so far, in order
    devices,          \* find_suitable_physical_device: the driver's device list
    selection,        \* its result: (physical device, queue family index)
    report,           \* create_swapchain: what the surface queries reported
    sc,               \* create_swapchain: its locals and its outcome
    images,           \* get_swapchain_images: the driver's image list
    view_results,     \* the driver's answer to create_image_view, per image
    image_views       \* get_swapchain_images: the views it returned

vars == <<pc, overflow_checks, win, result, error, steps, created, live,
          live_views, destroyed, devices, selection, report, sc, images,
          view_results, image_views>>

(***************************************************************************)
(* Bounds of the model.                                                    *)
(***************************************************************************)
MaxDevices == 2
MaxModes == 2
MaxImages == 2

Range(s) == {s[i] : i \in DOMAIN s}

SeqsUpTo(S, n) == UNION {[1..k -> S] : k \in 0..n}

(***************************************************************************)
(* u32 values.  A value is kept as two 16-bit limbs <<hi, lo>>, so that    *)
(* u32::MAX and the wrap of an addition are the ones of the program.       *)
(***************************************************************************)
Limb == 2^16

U32(n) == <<n \div Limb, n % Limb>>

U32MAX == <<Limb - 1, Limb - 1>>

U32Gt(a, b) == a[1] > b[1] \/ (a[1] = b[1] /\ a[2] > b[2])

\* a + 1 in a build without overflow checks
WrappingAdd1(a) ==
    IF a[2] < Limb - 1 THEN <<a[1], a[2] + 1>>
    ELSE IF a[1] < Limb - 1 THEN <<a[1] + 1, 0>>
    ELSE <<0, 0>>

\* a + 1 does not fit a u32
Add1Overflows(a) == a = U32MAX

(***************************************************************************)
(* Compile-time configuration.                                             *)
(***************************************************************************)
DEVICE_EXTENSION_NAMES ==
    << "VK_KHR_ray_tracing_pipeline", "VK_KHR_spirv_1_4",
       "VK_KHR_acceleration_structure", "VK_KHR_deferred_host_operations",
       "VK_KHR_swapchain" >>

WIDTH == 800
HEIGHT == 600

\* an extension_name field holding no NUL byte
Unterminated == "<no NUL>"

(***************************************************************************)
(* find_suitable_physical_device                                           *)
(***************************************************************************)
\* exts.into_iter().find_map(|ext| Some(NAMES[0] == CStr::from_bytes_until_nul(..).ok()?))
\* the first extension whose name parses decides: Some(whether it is NAMES[0])
RECURSIVE ExtFindMap(_, _)
ExtFindMap(exts, i) ==
    IF i > Len(exts) THEN [some |-> FALSE, val |-> FALSE]
    ELSE IF exts[i] = Unterminated THEN ExtFindMap(exts, i + 1)
    ELSE [some |-> TRUE, val |-> (DEVICE_EXTENSION_NAMES[1] = exts[i])]

\* let _ = exts.into_iter().find_map(..)?;   the value found is dropped
ExtensionCheck(exts) == ExtFindMap(exts, 1).some

\* the closure queue_family_supports_features; an Err of the support query is None
queue_family_supports_features(info) ==
    info.graphics /\ info.present = "yes"

\* .iter().enumerate().find_map(..) over the queue families; index is 0-based
RECURSIVE FamilyFindMap(_, _)
FamilyFindMap(families, i) ==
    IF i > Len(families) THEN [some |-> FALSE, index |-> 0]
    ELSE IF queue_family_supports_features(families[i])
         THEN [some |-> TRUE, index |-> i - 1]
    ELSE FamilyFindMap(families, i + 1)

\* the closure given to find_map over the physical devices
DeviceClosure(dev) ==
    IF ~dev.exts_ok THEN [some |-> FALSE, index |-> 0]
    ELSE IF ~ExtensionCheck(dev.exts) THEN [some |-> FALSE, index |-> 0]
    ELSE FamilyFindMap(dev.families, 1)

\* a physical device handle is its position in the driver's list
RECURSIVE DeviceFindMap(_, _)
DeviceFindMap(devs, d) ==
    IF d > Len(devs) THEN [some |-> FALSE, device |-> 0, index |-> 0]
    ELSE IF DeviceClosure(devs[d]).some
         THEN [some |-> TRUE, device |-> d, index |-> DeviceClosure(devs[d]).index]
    ELSE DeviceFindMap(devs, d + 1)

NoSuitableDevice == "No suitable physical devices found."

find_suitable_physical_device(enum) ==
    IF ~enum.ok
    THEN [ok |-> FALSE, error |-> "enumerate_physical_devices",
          sel |-> [some |-> FALSE, device |-> 0, index |-> 0]]
    ELSE LET f == DeviceFindMap(enum.list, 1)
         IN  [ok |-> f.some,
              error |-> IF f.some THEN "" ELSE NoSuitableDevice,
              sel |-> f]

(***************************************************************************)
(* create_swapchain                                                        *)
(***************************************************************************)
MAILBOX == "MAILBOX"

NoPresentMode == "No present modes detected!"
NoFormats == "No formats detected!"

\* a selection that never looks for MAILBOX
PresentModeFirst(modes) ==
    IF modes = <<>> THEN [ok |-> FALSE, mode |-> "none"]
    ELSE [ok |-> TRUE, mode |-> modes[1]]

\* present_modes.contains(&MAILBOX), else present_modes.first().ok_or(..)?
PresentModeOf(modes) ==
    IF MAILBOX \in Range(modes) THEN [ok |-> TRUE, mode |-> MAILBOX]
    ELSE IF modes = <<>> THEN [ok |-> FALSE, mode |-> "none"]
    ELSE [ok |-> TRUE, mode |-> modes[1]]

\* image_count after the clamp, given min_image_count + 1 as the build computes it
ImageCountOf(min_image_count, max_image_count) ==
    LET image_count == WrappingAdd1(min_image_count)
    IN  IF U32Gt(max_image_count, U32(0)) /\ U32Gt(image_count, max_image_count)
        THEN max_image_count
        ELSE image_count

ExtentOf(current_extent) ==
    IF current_extent.width = U32MAX
    THEN [width |-> U32(WIDTH), height |-> U32(HEIGHT)]
    ELSE current_extent

NoExtent == [width |-> U32(0), height |-> U32(0)]

NoInfo ==
    [built |-> FALSE, min_image_count |-> U32(0), image_extent |-> NoExtent,
     present_mode |-> "none", image_format |-> "none"]

\* the locals of create_swapchain before anything is computed
ScStart ==
    [status |-> "none", error |-> "", present_mode |-> "none",
     counted |-> FALSE, image_count |-> U32(0), info |-> NoInfo]

\* create_swapchain on the reports r of the three surface queries, the driver's
\* answer to vkCreateSwapchainKHR and the build
create_swapchain(r, driver_ok, checks) ==
    IF ~r.caps_ok THEN
        [ScStart EXCEPT !.status = "err", !.error = "surface_capabilities"]
    ELSE IF ~r.formats_ok THEN
        [ScStart EXCEPT !.status = "err", !.error = "surface_formats"]
    ELSE IF ~r.modes_ok THEN
        [ScStart EXCEPT !.status = "err", !.error = "surface_present_modes"]
    ELSE IF ~PresentModeOf(r.modes).ok THEN
        [ScStart EXCEPT !.status = "err", !.error = NoPresentMode]
    ELSE
    LET pm == PresentModeOf(r.modes).mode
        s1 == [ScStart EXCEPT !.present_mode = pm]
    IN  IF checks /\ Add1Overflows(r.caps.min_image_count) THEN
            [s1 EXCEPT !.status = "panic", !.error = "attempt to add with overflow"]
        ELSE
        LET ic == ImageCountOf(r.caps.min_image_count, r.caps.max_image_count)
            s2 == [s1 EXCEPT !.counted = TRUE, !.image_count = ic]
        IN  IF r.formats = <<>> THEN
                [s2 EXCEPT !.status = "err", !.error = NoFormats]
            ELSE
            LET info == [built |-> TRUE, min_image_count |-> ic,
                         image_extent |-> ExtentOf(r.caps.current_extent),
                         present_mode |-> pm, image_format |-> r.formats[1]]
                s3 == [s2 EXCEPT !.info = info]
            IN  IF driver_ok THEN [s3 EXCEPT !.status = "ok"]
                ELSE [s3 EXCEPT !.status = "err", !.error = "create_swapchain"]

(***************************************************************************)
(* get_swapchain_images                                                    *)
(***************************************************************************)
\* the view created from an image
ViewOf(image) == [image |-> image]

\* a collection that skips the images whose view could not be created
RECURSIVE CollectViewsSkipping(_, _, _, _)
CollectViewsSkipping(imgs, oks, i, acc) ==
    IF i > Len(imgs) THEN [ok |-> TRUE, views |-> acc, calls |-> Len(imgs)]
    ELSE IF ~oks[i] THEN CollectViewsSkipping(imgs, oks, i + 1, acc)
    ELSE CollectViewsSkipping(imgs, oks, i + 1, Append(acc, ViewOf(imgs[i])))

\* images.iter().map(|&image| device.create_image_view(..)).collect() into a
\* Result: the first Err ends the iteration.  views: the views collected so far;
\* calls: the number of create_image_view calls made
RECURSIVE CollectViews(_, _, _, _)
CollectViews(imgs, oks, i, acc) ==
    IF i > Len(imgs) THEN [ok |-> TRUE, views |-> acc, calls |-> Len(imgs)]
    ELSE IF ~oks[i] THEN [ok |-> FALSE, views |-> acc, calls |-> i]
    ELSE CollectViews(imgs, oks, i + 1, Append(acc, ViewOf(imgs[i])))

\* get_swapchain_images on the driver's image list and its answers to the
\* create_image_view calls.  made: the views the driver created during the call
get_swapchain_images(img, oks) ==
    IF ~img.ok
    THEN [status |-> "err", error |-> "get_swapchain_images", images |-> <<>>,
          image_views |-> <<>>, made |-> {}, calls |-> 0]
    ELSE LET c == CollectViews(img.list, oks, 1, <<>>)
         IN  [status |-> IF c.ok THEN "ok" ELSE "err",
              error |-> IF c.ok THEN "" ELSE "create_image_view",
              images |-> IF c.ok THEN img.list ELSE <<>>,
              image_views |-> IF c.ok THEN c.views ELSE <<>>,
              made |-> Range(c.views),
              calls |-> c.calls]

(***************************************************************************)
(* The other calls of new.  fails names the first call that returns an     *)
(* Err, the empty string when none does.                                  *)
(***************************************************************************)
UnwrapPanic == "called Result::unwrap() on an Err value"

\* EventLoop::new()? and WindowBuilder::build(&event_loop)?
build_window(fails) ==
    IF fails = "EventLoop::new" THEN [status |-> "err", made |-> <<>>]
    ELSE IF fails = "build" THEN [status |-> "err", made |-> <<"event_loop">>]
    ELSE [status |-> "ok", made |-> <<"event_loop", "window">>]

create_instance(fails) ==
    IF fails = "display_handle" THEN [status |-> "err", error |-> fails]
    ELSE IF fails = "enumerate_required_extensions"
         THEN [status |-> "panic", error |-> UnwrapPanic]
    ELSE IF fails = "create_instance" THEN [status |-> "err", error |-> fails]
    ELSE [status |-> "ok", error |-> ""]

setup_debug_callback(fails) ==
    IF fails = "create_debug_utils_messenger" THEN [status |-> "err", error |-> fails]
    ELSE [status |-> "ok", error |-> ""]

create_surface(fails) ==
    IF fails \in {"display_handle", "window_handle", "create_surface"}
    THEN [status |-> "err", error |-> fails]
    ELSE [status |-> "ok", error |-> ""]

\* CStr::from_bytes_until_nul(&device_name)? inside log::info!
device_name(fails) ==
    IF fails = "from_bytes_until_nul" THEN [status |-> "err", error |-> fails]
    ELSE [status |-> "ok", error |-> ""]

create_queue_and_logical_device(fails) ==
    IF fails = "create_device" THEN [status |-> "err", error |-> fails]
    ELSE [status |-> "ok", error |-> ""]

(***************************************************************************)
(* The statements of new, in program order.                                *)
(***************************************************************************)
\* an order that selects the physical device before the surface exists
StepOrderSurfaceLate ==
    << "build_window", "create_instance", "setup_debug_callback",
       "find_suitable_physical_device", "create_surface", "device_name",
       "create_queue_and_logical_device", "create_swapchain",
       "get_swapchain_images", "return" >>

\* the calls of new as written, top to bottom
StepOrder ==
    << "build_window", "create_instance", "setup_debug_callback",
       "create_surface", "find_suitable_physical_device", "device_name",
       "create_queue_and_logical_device", "create_swapchain",
       "get_swapchain_images", "return" >>

After(step) ==
    LET i == CHOOSE k \in DOMAIN StepOrder : StepOrder[k] = step
    IN  StepOrder[i + 1]

\* what each call is given: the arguments new passes to it
Uses(step) ==
    CASE step = "build_window" -> {}
      [] step = "create_instance" -> {"window"}
      [] step = "setup_debug_callback" -> {"instance"}
      [] step = "create_surface" -> {"instance", "window"}
      [] step = "find_suitable_physical_device" -> {"instance", "surface"}
      [] step = "device_name" -> {"instance", "selection"}
      [] step = "create_queue_and_logical_device" -> {"instance", "selection"}
      [] step = "create_swapchain" -> {"instance", "selection", "device", "surface"}
      [] step = "get_swapchain_images" -> {"device", "swapchain"}
      [] OTHER -> {}

\* the locals of new that have a destructor, in the order a return drops them
\* (the reverse of their declaration)
LocalsDropOrder == <<"window", "event_loop">>

\* the fields of VoxelRenderer that have a destructor, in declaration order
FieldsDropOrder == <<"event_loop", "window">>

DropSeq(order, l) == SelectSeq(order, LAMBDA e : e \in l)

(***************************************************************************)
(* What the environment may answer.                                        *)
(***************************************************************************)
\* sizes new may be called with: new is a pub fn of two u32; main passes (800, 600)
WinSizes == {<<800, 600>>, <<1024, 768>>}

Family(g, p) == [graphics |-> g, present |-> p]

\* queue family lists a device may report; present is the driver's answer to
\* get_physical_device_surface_support: "yes", "no" or "err"
FamilyReports ==
    { <<>>,
      <<Family(TRUE, "yes")>>,
      <<Family(TRUE, "no")>>,
      <<Family(FALSE, "yes"), Family(TRUE, "yes")>>,
      <<Family(TRUE, "err"), Family(TRUE, "yes")>>,
      <<Family(TRUE, "no"), Family(FALSE, "yes"), Family(TRUE, "yes")>>,
      <<Family(TRUE, "yes"), Family(TRUE, "yes")>> }

\* extension lists a device may report
ExtReports ==
    { <<>>,
      DEVICE_EXTENSION_NAMES,
      <<DEVICE_EXTENSION_NAMES[1]>>,
      <<DEVICE_EXTENSION_NAMES[5]>>,
      <<Unterminated>> }

\* a device whose enumerate_device_extension_properties fails reports no list
DeviceReports ==
    {[exts_ok |-> TRUE, exts |-> e, families |-> f] :
        e \in ExtReports, f \in FamilyReports}
    \cup {[exts_ok |-> FALSE, exts |-> <<>>, families |-> f] : f \in FamilyReports}

Enumerations ==
    {[ok |-> FALSE, list |-> <<>>]}
    \cup {[ok |-> TRUE, list |-> l] : l \in SeqsUpTo(DeviceReports, MaxDevices)}

MinCounts == {U32(0), U32(2), U32MAX}
MaxCounts == {U32(0), U32(2), U32MAX}
Extents ==
    { [width |-> U32MAX, height |-> U32MAX],
      [width |-> U32(1024), height |-> U32(768)],
      [width |-> U32(640), height |-> U32(480)] }

CapsReports ==
    [min_image_count : MinCounts, max_image_count : MaxCounts, current_extent : Extents]

FormatReports ==
    { <<>>, <<"R8G8B8A8_UNORM", "B8G8R8A8_SRGB">> }

ModeReports == SeqsUpTo({MAILBOX, "FIFO", "IMMEDIATE"}, MaxModes)

NoCaps ==
    [min_image_count |-> U32(0), max_image_count |-> U32(0), current_extent |-> NoExtent]

NoReport ==
    [caps_ok |-> FALSE, caps |-> NoCaps, formats_ok |-> FALSE, formats |-> <<>>,
     modes_ok |-> FALSE, modes |-> <<>>]

\* the answers to the three surface queries; a query after a failed one is not made
SurfaceReports ==
    {NoReport}
    \cup {[NoReport EXCEPT !.caps_ok = TRUE, !.caps = c] : c \in CapsReports}
    \cup {[NoReport EXCEPT !.caps_ok = TRUE, !.caps = c, !.formats_ok = TRUE,
                           !.formats = f] : c \in CapsReports, f \in FormatReports}
    \cup {[caps_ok |-> TRUE, caps |-> c, formats_ok |-> TRUE, formats |-> f,
           modes_ok |-> TRUE, modes |-> m] :
            c \in CapsReports, f \in FormatReports, m \in ModeReports}

\* image lists the driver may return: distinct handles, in any order
ImageReports ==
    {[ok |-> FALSE, list |-> <<>>]}
    \cup {[ok |-> TRUE, list |-> l] :
            l \in {q \in SeqsUpTo(1..MaxImages, MaxImages) :
                     \A i, j \in DOMAIN q : q[i] = q[j] => i = j}}

NoDevices == [called |-> FALSE, ok |-> FALSE, list |-> <<>>]
NoSelection == [some |-> FALSE, device |-> 0, index |-> 0]
NoImages == [called |-> FALSE, ok |-> FALSE, list |-> <<>>]

(***************************************************************************)
(* The state machine.                                                      *)
(***************************************************************************)
Init ==
    /\ pc = StepOrder[1]
    /\ overflow_checks \in BOOLEAN
    /\ win \in WinSizes
    /\ result = "running"
    /\ error = ""
    /\ steps = <<>>
    /\ created = <<>>
    /\ live = {}
    /\ live_views = {}
    /\ destroyed = <<>>
    /\ devices = NoDevices
    /\ selection = NoSelection
    /\ report = NoReport
    /\ sc = ScStart
    /\ images = NoImages
    /\ view_results = <<>>
    /\ image_views = <<>>

Called(step, outcome) ==
    Append(steps, [name |-> step, outcome |-> outcome, had |-> Range(created)])

\* the call returned Ok: new goes on with its next statement
Proceed(step, made, handles) ==
    /\ steps' = Called(step, "ok")
    /\ created' = created \o made
    /\ live' = live \cup handles
    /\ pc' = After(step)
    /\ UNCHANGED <<result, error, destroyed>>

\* the call returned Err (the ? returns it from new) or panicked: the locals of
\* new are dropped, and only the event loop and the window have a destructor
Abort(step, outcome, err, made, handles) ==
    /\ steps' = Called(step, outcome)
    /\ created' = created \o made
    /\ live' = (live \cup handles) \ Range(LocalsDropOrder)
    /\ destroyed' = destroyed \o DropSeq(LocalsDropOrder, live \cup handles)
    /\ result' = outcome
    /\ error' = err
    /\ pc' = "unwrap"

BuildWindow ==
    /\ pc = "build_window"
    /\ \E fails \in {"", "EventLoop::new", "build"} :
        LET r == build_window(fails)
        IN  IF r.status = "ok"
            THEN Proceed("build_window", r.made, Range(r.made))
            ELSE Abort("build_window", "err", fails, r.made, Range(r.made))
    /\ UNCHANGED <<overflow_checks, win, live_views, devices, selection, report,
                   sc, images, view_results, image_views>>

CreateInstance ==
    /\ pc = "create_instance"
    /\ \E fails \in {"", "display_handle", "enumerate_required_extensions",
                     "create_instance"} :
        LET r == create_instance(fails)
        IN  IF r.status = "ok"
            THEN Proceed("create_instance", <<"instance">>, {"instance"})
            ELSE Abort("create_instance", r.status, r.error, <<>>, {})
    /\ UNCHANGED <<overflow_checks, win, live_views, devices, selection, report,
                   sc, images, view_results, image_views>>

SetupDebugCallback ==
    /\ pc = "setup_debug_callback"
    /\ \E fails \in {"", "create_debug_utils_messenger"} :
        LET r == setup_debug_callback(fails)
        IN  IF r.status = "ok"
            THEN Proceed("setup_debug_callback", <<"debug_callback">>,
                         {"debug_callback"})
            ELSE Abort("setup_debug_callback", r.status, r.error, <<>>, {})
    /\ UNCHANGED <<overflow_checks, win, live_views, devices, selection, report,
                   sc, images, view_results, image_views>>

CreateSurface ==
    /\ pc = "create_surface"
    /\ \E fails \in {"", "display_handle", "window_handle", "create_surface"} :
        LET r == create_surface(fails)
        IN  IF r.status = "ok"
            THEN Proceed("create_surface", <<"surface">>, {"surface"})
            ELSE Abort("create_surface", r.status, r.error, <<>>, {})
    /\ UNCHANGED <<overflow_checks, win, live_views, devices, selection, report,
                   sc, images, view_results, image_views>>

FindSuitablePhysicalDevice ==
    /\ pc = "find_suitable_physical_device"
    /\ \E enum \in Enumerations :
        LET r == find_suitable_physical_device(enum)
        IN  /\ devices' = [called |-> TRUE, ok |-> enum.ok, list |-> enum.list]
            /\ selection' = r.sel
            /\ IF r.ok
               THEN Proceed("find_suitable_physical_device", <<"selection">>, {})
               ELSE Abort("find_suitable_physical_device", "err", r.error, <<>>, {})
    /\ UNCHANGED <<overflow_checks, win, live_views, report, sc, images,
                   view_results, image_views>>

\* the device list of find_suitable_physical_device is gone once it has returned
DeviceName ==
    /\ pc = "device_name"
    /\ \E fails \in {"", "from_bytes_until_nul"} :
        LET r == device_name(fails)
        IN  IF r.status = "ok"
            THEN Proceed("device_name", <<>>, {})
            ELSE Abort("device_name", r.status, r.error, <<>>, {})
    /\ devices' = NoDevices
    /\ UNCHANGED <<overflow_checks, win, live_views, selection, report, sc,
                   images, view_results, image_views>>

CreateQueueAndLogicalDevice ==
    /\ pc = "create_queue_and_logical_device"
    /\ \E fails \in {"", "create_device"} :
        LET r == create_queue_and_logical_device(fails)
        IN  IF r.status = "ok"
            THEN Proceed("create_queue_and_logical_device", <<"device">>, {"device"})
            ELSE Abort("create_queue_and_logical_device", r.status, r.error, <<>>, {})
    /\ devices' = NoDevices
    /\ UNCHANGED <<overflow_checks, win, live_views, selection, report, sc,
                   images, view_results, image_views>>

CreateSwapchain ==
    /\ pc = "create_swapchain"
    /\ \E r \in SurfaceReports, driver_ok \in BOOLEAN :
        LET s == create_swapchain(r, driver_ok, overflow_checks)
        IN  /\ report' = r
            /\ sc' = s
            /\ IF s.status = "ok"
               THEN Proceed("create_swapchain", <<"swapchain">>, {"swapchain"})
               ELSE Abort("create_swapchain", s.status, s.error, <<>>, {})
    /\ devices' = NoDevices
    /\ UNCHANGED <<overflow_checks, win, live_views, selection, images,
                   view_results, image_views>>

\* the reports and locals of create_swapchain are gone once it has returned
GetSwapchainImages ==
    /\ pc = "get_swapchain_images"
    /\ \E img \in ImageReports :
        \E oks \in [DOMAIN img.list -> BOOLEAN] :
            LET r == get_swapchain_images(img, oks)
            IN  /\ images' = [called |-> TRUE, ok |-> img.ok, list |-> img.list]
                /\ view_results' = SubSeq(oks, 1, r.calls)
                /\ image_views' = r.image_views
                /\ live_views' = live_views \cup r.made
                /\ IF r.status = "ok"
                   THEN Proceed("get_swapchain_images", <<"image_views">>, {})
                   ELSE Abort("get_swapchain_images", r.status, r.error, <<>>, {})
    /\ devices' = NoDevices
    /\ report' = NoReport
    /\ sc' = ScStart
    /\ UNCHANGED <<overflow_checks, win, selection>>

\* Ok(Self { entry, event_loop, window, instance, debug_callback })
Return ==
    /\ pc = "return"
    /\ result' = "ok"
    /\ pc' = "unwrap"
    /\ UNCHANGED <<overflow_checks, win, error, steps, created, live, live_views,
                   destroyed, devices, selection, report, sc, images,
                   view_results, image_views>>

\* main: VoxelRenderer::new(800, 600).unwrap(); the value is dropped at the end of
\* the statement, field by field
DropRenderer ==
    /\ pc = "unwrap"
    /\ result = "ok"
    /\ destroyed' = destroyed \o DropSeq(FieldsDropOrder, live)
    /\ live' = live \ Range(FieldsDropOrder)
    /\ pc' = "exit"
    /\ UNCHANGED <<overflow_checks, win, result, error, steps, created,
                   live_views, devices, selection, report, sc, images,
                   view_results, image_views>>

\* main: unwrap of an Err panics; a panic inside new goes on unwinding
MainPanics ==
    /\ pc = "unwrap"
    /\ result \in {"err", "panic"}
    /\ pc' = "exit"
    /\ UNCHANGED <<overflow_checks, win, result, error, steps, created, live,
                   live_views, destroyed, devices, selection, report, sc, images,
                   view_results, image_views>>

Next ==
    \/ BuildWindow
    \/ CreateInstance
    \/ SetupDebugCallback
    \/ CreateSurface
    \/ FindSuitablePhysicalDevice
    \/ DeviceName
    \/ CreateQueueAndLogicalDevice
    \/ CreateSwapchain
    \/ GetSwapchainImages
    \/ Return
    \/ DropRenderer
    \/ MainPanics

Spec == Init /\ [][Next]_vars

(***************************************************************************)
(* Properties.                                                             *)
(***************************************************************************)
Required == Range(DEVICE_EXTENSION_NAMES)

\* the call of find_suitable_physical_device has returned and its device list
\* is still in view
Selected == devices.called /\ devices.ok /\ selection.some

\* C1: find_suitable_physical_device returns only a device whose reported
\* extension set is a superset of the required device extensions.
C1_SelectedDeviceReportsAllRequired ==
    Selected =>
        /\ devices.list[selection.device].exts_ok
        /\ Required \subseteq Range(devices.list[selection.device].exts)

GraphicsAndPresent(info) == info.graphics /\ info.present = "yes"

SuitableFamilies(dev) ==
    {i \in DOMAIN dev.families : GraphicsAndPresent(dev.families[i])}

SuitableDevices(list) ==
    {d \in DOMAIN list :
        /\ list[d].exts_ok
        /\ Required \subseteq Range(list[d].exts)
        /\ SuitableFamilies(list[d]) # {}}

Lowest(S) == CHOOSE x \in S : \A y \in S : x <= y

\* C2: the pair returned is the first device in enumeration order that reports
\* every required extension and has a family with graphics capability and
\* confirmed presentation support, with the lowest index of such a family; the
\* call fails with the no-suitable-device error exactly when there is no such
\* device.
C2_FirstSuitableDeviceLowestFamily ==
    (devices.called /\ devices.ok) =>
        IF SuitableDevices(devices.list) # {}
        THEN LET d == Lowest(SuitableDevices(devices.list))
             IN  /\ selection.some
                 /\ selection.device = d
                 /\ selection.index = Lowest(SuitableFamilies(devices.list[d])) - 1
        ELSE /\ ~selection.some
             /\ result = "err"
             /\ error = NoSuitableDevice

\* a u32 widened by one limb, so that min_image_count + 1 is the number itself
Wide(a) == <<0, a[1], a[2]>>

WideSucc(a) ==
    IF a[2] < Limb - 1 THEN <<0, a[1], a[2] + 1>>
    ELSE IF a[1] < Limb - 1 THEN <<0, a[1] + 1, 0>>
    ELSE <<1, 0, 0>>

WideLe(a, b) ==
    \/ a[1] < b[1]
    \/ a[1] = b[1] /\ a[2] < b[2]
    \/ a[1] = b[1] /\ a[2] = b[2] /\ a[3] <= b[3]

\* C3: the image count requested is min_image_count + 1 when max_image_count is
\* 0 or min_image_count + 1 <= max_image_count, and max_image_count otherwise.
C3_RequestedImageCount ==
    sc.info.built =>
        LET lo == report.caps.min_image_count
            hi == report.caps.max_image_count
        IN  Wide(sc.info.min_image_count) =
                IF hi = U32(0) \/ WideLe(WideSucc(lo), Wide(hi))
                THEN WideSucc(lo)
                ELSE Wide(hi)

\* C4: with current_extent.width = 0xFFFFFFFF the extent requested is the
\* window size given to new; otherwise it is the reported current extent.
C4_ExtentIsRequestedWindowSize ==
    sc.info.built =>
        IF report.caps.current_extent.width = U32MAX
        THEN sc.info.image_extent = [width |-> U32(win[1]), height |-> U32(win[2])]
        ELSE sc.info.image_extent = report.caps.current_extent

\* C5: a present-mode list holding MAILBOX selects MAILBOX wherever it stands; a
\* non-empty list without it selects its first mode; an empty list fails with
\* the no-present-mode error and no swapchain is created.
C5_PresentModeSelection ==
    report.modes_ok =>
        /\ MAILBOX \in Range(report.modes) =>
            /\ sc.present_mode = MAILBOX
            /\ sc.info.built => sc.info.present_mode = MAILBOX
        /\ (report.modes # <<>> /\ MAILBOX \notin Range(report.modes)) =>
            /\ sc.present_mode = report.modes[1]
            /\ sc.info.built => sc.info.present_mode = report.modes[1]
        /\ report.modes = <<>> =>
            /\ result = "err"
            /\ error = NoPresentMode
            /\ ~sc.info.built
            /\ "swapchain" \notin live
            /\ "swapchain" \notin Range(created)

\* MAILBOX listed second is chosen and the swapchain is created with it
C5_Witness ==
    /\ report.modes_ok
    /\ report.modes = <<"FIFO", MAILBOX>>
    /\ sc.status = "ok"
    /\ sc.info.present_mode = MAILBOX
    /\ "swapchain" \in live

VulkanTeardown == <<"swapchain", "device", "surface", "debug_callback", "instance">>

\* the entities that depend on e
Dependents(e) ==
    CASE e = "window" -> {"surface"}
      [] e = "instance" -> {"debug_callback", "surface", "device"}
      [] e = "surface" -> {"swapchain"}
      [] e = "device" -> {"swapchain"}
      [] OTHER -> {}

\* C6: after a successful bootstrap and the destruction of the returned value
\* the entities have been destroyed in the order Swapchain, Logical Device,
\* Surface, Diagnostics Registration, Context, and nothing was destroyed while
\* a dependent of it was alive.
C6_TeardownOrder ==
    /\ (pc = "exit" /\ result = "ok") =>
        SelectSeq(destroyed, LAMBDA e : e \in Range(VulkanTeardown)) = VulkanTeardown
    /\ result = "ok" =>
        \A i \in DOMAIN destroyed : Dependents(destroyed[i]) \cap live = {}

\* C7: a failing step is the last step made and its failure is the Err that new
\* returns; no step is made twice; new returns Ok only after every step
\* succeeded.
C7_FailureIsReturnedAsError ==
    /\ \A i \in DOMAIN steps :
        steps[i].outcome # "ok" => (i = Len(steps) /\ result = "err")
    /\ \A i, j \in DOMAIN steps : steps[i].name = steps[j].name => i = j
    /\ result = "ok" =>
        /\ \A i \in DOMAIN steps : steps[i].outcome = "ok"
        /\ {steps[i].name : i \in DOMAIN steps} = Range(StepOrder) \ {"return"}

VulkanHandles == {"instance", "debug_callback", "surface", "device", "swapchain"}

\* C8: when new has failed, no handle it created is still live.
C8_NoHandleLiveAfterFailure ==
    result \in {"err", "panic"} =>
        /\ live \cap VulkanHandles = {}
        /\ live_views = {}

ImagesOutcome ==
    LET i == CHOOSE k \in DOMAIN steps : steps[k].name = "get_swapchain_images"
    IN  steps[i].outcome

\* C9: on success get_swapchain_images returns one view per image, the i-th
\* made from the i-th image; when a view creation fails the call fails and
\* returns no views.
C9_OneViewPerImage ==
    images.called =>
        /\ ImagesOutcome = "ok" =>
            /\ images.ok
            /\ Len(image_views) = Len(images.list)
            /\ \A i \in DOMAIN image_views : image_views[i].image = images.list[i]
        /\ (\E i \in DOMAIN view_results : ~view_results[i]) =>
            /\ ImagesOutcome = "err"
            /\ result = "err"
        /\ ImagesOutcome # "ok" => image_views = <<>>

\* two images, reported out of handle order, each with its view
C9_Witness ==
    /\ images.called
    /\ images.list = <<2, 1>>
    /\ ImagesOutcome = "ok"
    /\ image_views = <<[image |-> 2], [image |-> 1]>>

\* what each entity depends on
Deps(e) ==
    CASE e = "debug_callback" -> {"instance"}
      [] e = "surface" -> {"instance", "window"}
      [] e = "selection" -> {"instance", "surface"}
      [] e = "device" -> {"instance", "selection"}
      [] e = "swapchain" -> {"device", "surface"}
      [] e = "image_views" -> {"swapchain"}
      [] OTHER -> {}

\* C10: every entity is constructed after all the entities it depends on, and
\* every call of new is given only what earlier calls produced.
C10_ConstructedAfterDependencies ==
    /\ \A i \in DOMAIN created :
        Deps(created[i]) \subseteq {created[j] : j \in 1..(i - 1)}
    /\ \A i \in DOMAIN steps : Uses(steps[i].name) \subseteq steps[i].had

\* the whole chain was built
C10_Witness ==
    /\ result = "ok"
    /\ created = << "event_loop", "window", "instance", "debug_callback", "surface",
                    "selection", "device", "swapchain", "image_views" >>

====
